---- MODULE Spec2Model ----
(***************************************************************************)
(* Model of geforcedrvchk3: the display-driver version check.              *)
(*                                                                         *)
(*   src/src/lib.rs   get_page, get_available_version_information,        *)
(*                    get_installed_version, get_nvidia_smi_location,      *)
(*                    start_browser, ask_confirmation, dl_file,            *)
(*                    auto_install                                         *)
(*   src/src/main.rs  handle_error, main                                   *)
(*                                                                         *)
(* Texts are sequences of tokens.  A Rust Result is a record               *)
(* [kind, val, msg]: kind "ok" carries val, kind "err" carries the error   *)
(* message, kind "panic" is an unwinding panic (expect / unwrap), which    *)
(* never yields a value to the caller.                                     *)
(***************************************************************************)
EXTENDS Integers, Sequences, FiniteSets, TLC

VARIABLES
    pc,         \* position of the run (of main, or of the function under study)
    env,        \* names of the environment variables that are set
    files,      \* candidate paths of nvidia-smi that exist on disk
    proc,       \* the nvidia-smi child process: started, exit code, stdout
    page,       \* what the fetch capability returned (a Result holding a payload)
    installed,  \* Result of get_installed_version
    available,  \* Result of get_available_version_information
    instd_ver,  \* Result of parsing installed as f64
    avail_ver,  \* Result of parsing available.0 as f64
    options,    \* ask_confirmation: the option characters
    default,    \* ask_confirmation: index of the default option (1-based here)
    input,      \* ask_confirmation / handle_error: the line last read from stdin
    choice,     \* value returned by ask_confirmation (0 = none yet, else 1-based index)
    log,        \* observable events of the run, in order
    location,   \* Result of get_nvidia_smi_location
    disk,       \* state of the temp file %TEMP%\nvidiadrv.exe
    exitCode    \* process exit status, NoExit while running

vars == <<pc, env, files, proc, page, installed, available, instd_ver, avail_ver,
          options, default, input, choice, log, location, disk, exitCode>>

----------------------------------------------------------------------------
(* Bounds of the model *)

\* longest captured nvidia-smi output, in tokens
MaxOut == 6
\* longest version text in a JSON payload, in tokens
MaxVer == 3
\* most elements of the IDS list of a payload
MaxIDS == 2
\* longest text after each "Driver Version: " of an output that holds two of them
MaxNum == 3
\* longest input line (without its line terminator), in characters
MaxLine == 2
\* most times the prompt is shown in one run
MaxAsk == 3

----------------------------------------------------------------------------
(* Results *)

Nil == << >>
Ok(v) == [kind |-> "ok", val |-> v, msg |-> ""]
Err(m) == [kind |-> "err", val |-> Nil, msg |-> m]
Panic(m) == [kind |-> "panic", val |-> Nil, msg |-> m]
NoResult == [kind |-> "none", val |-> Nil, msg |-> ""]

IsOk(r) == r.kind = "ok"
IsErr(r) == r.kind = "err"
IsPanic(r) == r.kind = "panic"

\* exit statuses: process::exit(1) in handle_error, 101 for a Rust panic,
\* 0 when main returns
NoExit == 0 - 1
ExitOk == 0
ExitError == 1
ExitPanic == 101

----------------------------------------------------------------------------
(* Error messages (the error taxonomy of the program) *)

ErrNetwork == "Unable to access the online resources!"
ErrEncoding == "The page has invalid UTF-8 characters!"
ErrMalformedJSON == "Incorrect information at the online resource!"
ErrSchemaVersion == "Cannot find version information from the online resource!"
ErrSchemaURL == "Cannot find download URL information from the online resource!"
ErrExecution == "Couldn't detect installed version. Maybe the driver is not installed?"
ErrPatternNotFound == "Cannot find installed version information!"
ErrNotFound == "Couldn't detect location for nvidia-smi. Maybe the driver is not installed?"
ErrFormatInstalled == "Cannot convert installed version number!"
ErrFormatAvailable == "Cannot convert available version number!"
ErrCreate == "Unable to create file {file}!"
PanicWindir == "Environment variable 'windir' not found!"
PanicProgramFiles == "Environment variable 'ProgramFiles' not found!"
PanicComSpec == "Environment variable 'ComSpec' not found!"
PanicTemp == "Environment variable 'temp' not found!"
PanicUnwrap == "called Result::unwrap() on an Err value"

SchemaMismatch == {ErrSchemaVersion, ErrSchemaURL}
FetchErrors == {ErrNetwork, ErrEncoding}

----------------------------------------------------------------------------
(* LocalVersionProbe: get_nvidia_smi_location, get_installed_version *)

SMI == "nvidia-smi.exe"
EnvVars == {"windir", "ProgramFiles", "ComSpec", "temp"}

\* %windir%\System32\<exe> (current layout), checked first
NewPath(exe) == <<"windir", "System32", exe>>
\* %ProgramFiles%\NVIDIA Corporation\NVSMI\<exe> (legacy layout), checked second
OldPath(exe) == <<"ProgramFiles", "NVIDIA Corporation", "NVSMI", exe>>
Candidates == {NewPath(SMI), OldPath(SMI)}

get_nvidia_smi_location(exe, e, fs) ==
    IF "windir" \notin e THEN Panic(PanicWindir)
    ELSE IF NewPath(exe) \notin fs
         THEN IF "ProgramFiles" \notin e THEN Panic(PanicProgramFiles)
              ELSE IF OldPath(exe) \notin fs THEN Err(ErrNotFound)
                   ELSE Ok(OldPath(exe))
         ELSE Ok(NewPath(exe))

\* Tokens of a captured output.  "DV" stands for the literal text
\* "Driver Version: " of the pattern, "x" for any other character.
Digits == {"0", "1"}
Dot == "."
DV == "DV"
OutTokens == Digits \cup {Dot, DV, "x"}

RECURSIVE SeqsUpTo(_, _)
SeqsUpTo(S, n) ==
    IF n = 0 THEN {<< >>}
    ELSE LET shorter == SeqsUpTo(S, n - 1)
         IN  shorter \cup {Append(s, c) : s \in {t \in shorter : Len(t) = n - 1}, c \in S}

\* [0-9]+ is greedy: the index of the last digit of the run starting at i,
\* i - 1 when s[i] is no digit
RECURSIVE DigitRun(_, _)
DigitRun(s, i) ==
    IF i <= Len(s) /\ s[i] \in Digits THEN DigitRun(s, i + 1) ELSE i - 1

\* the pattern  Driver Version: ([0-9]+\.[0-9]+)  anchored at position i:
\* capture group 1, or Nil when it does not match there
MatchAt(s, i) ==
    IF s[i] # DV THEN Nil
    ELSE LET a == DigitRun(s, i + 1)
         IN  IF a < i + 1 THEN Nil
             ELSE IF a + 1 > Len(s) \/ s[a + 1] # Dot THEN Nil
             ELSE LET b == DigitRun(s, a + 2)
                  IN  IF b < a + 2 THEN Nil ELSE SubSeq(s, i + 1, b)

CapturesAnchored(s, i) ==
    IF i > Len(s) THEN Nil ELSE MatchAt(s, i)

\* Regex::captures: the leftmost match, searched from position i on
RECURSIVE Captures(_, _)
Captures(s, i) ==
    IF i > Len(s) THEN Nil
    ELSE LET m == MatchAt(s, i)
         IN  IF m # Nil THEN m ELSE Captures(s, i + 1)

get_installed_version(exe, e, fs, p) ==
    LET nvidiasmi == get_nvidia_smi_location(exe, e, fs)
    IN  IF ~IsOk(nvidiasmi) THEN nvidiasmi
        ELSE IF ~p.started THEN Err(ErrExecution)
        ELSE LET captures == Captures(p.stdout, 1)
             IN  IF captures = Nil THEN Err(ErrPatternNotFound)
                 ELSE Ok(captures)

NoProc == [started |-> FALSE, code |-> 0, stdout |-> Nil]

----------------------------------------------------------------------------
(* JSONVersionExtractor: get_available_version_information *)

\* A JSON value is [t, s, e]: t its type, s the text of a string, e the
\* members of an object (key k, value v) or the elements of an array (v).
JNull == [t |-> "null", s |-> Nil, e |-> << >>]
JNum == [t |-> "num", s |-> Nil, e |-> << >>]
JStr(x) == [t |-> "str", s |-> x, e |-> << >>]
JArr(vs) == [t |-> "arr", s |-> Nil, e |-> [i \in DOMAIN vs |-> [k |-> "", v |-> vs[i]]]]
JObj(ms) == [t |-> "obj", s |-> Nil, e |-> ms]
Member(key, value) == [k |-> key, v |-> value]

\* json: data["key"] is the member's value for an object that has it, else null
JGet(j, key) ==
    IF j.t = "obj" /\ \E i \in DOMAIN j.e : j.e[i].k = key
    THEN j.e[CHOOSE i \in DOMAIN j.e : j.e[i].k = key].v
    ELSE JNull

\* json: data[n] (n counted from 0) is the element for an array that has it, else null
JAt(j, n) ==
    IF j.t = "arr" /\ n + 1 \in DOMAIN j.e THEN j.e[n + 1].v ELSE JNull

\* json: as_str is Some(text) for a string, None otherwise
IsStr(j) == j.t = "str"

\* A page text is well-formed JSON denoting doc, or it is not JSON at all.
Garbage == [wf |-> FALSE, doc |-> JNull]
Text(doc) == [wf |-> TRUE, doc |-> doc]
json_parse(text) == IF text.wf THEN Ok(text.doc) ELSE Err(ErrMalformedJSON)

get_available_version_information_version_only(fetched) ==
    IF ~IsOk(fetched) THEN fetched
    ELSE LET data == json_parse(fetched.val[1])
         IN  IF ~IsOk(data) THEN data
             ELSE LET json_version == JGet(JGet(JAt(JGet(data.val, "IDS"), 0), "downloadInfo"), "Version")
                      json_url == JGet(JGet(JAt(JGet(data.val, "IDS"), 0), "downloadInfo"), "DownloadURL")
                  IN  IF ~IsStr(json_version) THEN Err(ErrSchemaVersion)
                      ELSE Ok(<<json_version.s, json_url.s>>)

\* fetched is the Result of get_page(NVIDIA_URL); its value is <<text>>
get_available_version_information(fetched) ==
    IF ~IsOk(fetched) THEN fetched
    ELSE LET data == json_parse(fetched.val[1])
         IN  IF ~IsOk(data) THEN data
             ELSE LET json_version == JGet(JGet(JAt(JGet(data.val, "IDS"), 0), "downloadInfo"), "Version")
                      json_url == JGet(JGet(JAt(JGet(data.val, "IDS"), 0), "downloadInfo"), "DownloadURL")
                  IN  IF ~IsStr(json_version) THEN Err(ErrSchemaVersion)
                      ELSE IF ~IsStr(json_url) THEN Err(ErrSchemaURL)
                      ELSE Ok(<<json_version.s, json_url.s>>)

----------------------------------------------------------------------------
(* VersionComparator: str::parse::<f64> and the f64 less-than of main *)

\* Tokens of a version text; "x" is any character no number holds.
Sign == "-"
VerTokens == Digits \cup {Dot, Sign, "x"}
NaNText == <<"N", "a", "N">>
InfText == <<"i", "n", "f">>

DigitVal(c) == IF c = "0" THEN 0 ELSE 1

RECURSIVE DigitsValue(_)
DigitsValue(ds) ==
    IF ds = << >> THEN 0
    ELSE 10 * DigitsValue(SubSeq(ds, 1, Len(ds) - 1)) + DigitVal(ds[Len(ds)])

RECURSIVE Pow10(_)
Pow10(n) == IF n = 0 THEN 1 ELSE 10 * Pow10(n - 1)

\* fractions are held in units of 10^-FracDigits
FracDigits == IF MaxOut > MaxVer THEN MaxOut ELSE MaxVer

AllDigits(ds) == \A i \in DOMAIN ds : ds[i] \in Digits

\* A parsed f64: cls "num" with integer part ip and fraction fp (both carry
\* the sign), or "nan", "inf", "-inf".
Num(sgn, ip, fp) ==
    [cls |-> "num", ip |-> sgn * DigitsValue(ip),
     fp |-> sgn * DigitsValue(fp) * Pow10(FracDigits - Len(fp))]
NaN == [cls |-> "nan", ip |-> 0, fp |-> 0]
Inf(sgn) == [cls |-> IF sgn < 0 THEN "-inf" ELSE "inf", ip |-> 0, fp |-> 0]

\* str::parse::<f64>().or(Err(msg)): [sign] (inf | nan | digits [. digits]),
\* at least one digit; anything else is an error
ParseVersionLenient(s, msg) ==
    LET neg == s # << >> /\ s[1] = Sign
        sgn == IF neg THEN 0 - 1 ELSE 1
        body == IF neg THEN Tail(s) ELSE s
        dots == {i \in DOMAIN body : body[i] = Dot}
    IN  IF body = NaNText THEN Ok(NaN)
        ELSE IF body = InfText THEN Ok(Inf(sgn))
        ELSE IF Cardinality(dots) > 1 THEN Ok(Num(1, << >>, << >>))
        ELSE LET d == IF dots = {} THEN Len(body) + 1 ELSE CHOOSE i \in dots : TRUE
                 ip == SubSeq(body, 1, d - 1)
                 fp == SubSeq(body, d + 1, Len(body))
             IN  IF AllDigits(ip) /\ AllDigits(fp) /\ Len(ip) + Len(fp) > 0
                 THEN Ok(Num(sgn, ip, fp))
                 ELSE Ok(Num(1, << >>, << >>))

ParseVersion(s, msg) ==
    LET neg == s # << >> /\ s[1] = Sign
        sgn == IF neg THEN 0 - 1 ELSE 1
        body == IF neg THEN Tail(s) ELSE s
        dots == {i \in DOMAIN body : body[i] = Dot}
    IN  IF body = NaNText THEN Ok(NaN)
        ELSE IF body = InfText THEN Ok(Inf(sgn))
        ELSE IF Cardinality(dots) > 1 THEN Err(msg)
        ELSE LET d == IF dots = {} THEN Len(body) + 1 ELSE CHOOSE i \in dots : TRUE
                 ip == SubSeq(body, 1, d - 1)
                 fp == SubSeq(body, d + 1, Len(body))
             IN  IF AllDigits(ip) /\ AllDigits(fp) /\ Len(ip) + Len(fp) > 0
                 THEN Ok(Num(sgn, ip, fp))
                 ELSE Err(msg)

Rank(a) == IF a.cls = "-inf" THEN 0 - 1 ELSE IF a.cls = "inf" THEN 1 ELSE 0

F64LessOrEqual(a, b) ==
    /\ a.cls # "nan"
    /\ b.cls # "nan"
    /\ \/ Rank(a) < Rank(b)
       \/ /\ a.cls = "num"
          /\ b.cls = "num"
          /\ (a.ip < b.ip \/ (a.ip = b.ip /\ a.fp <= b.fp))

\* instd_ver < avail_ver on f64: false whenever either side is NaN
F64Less(a, b) ==
    /\ a.cls # "nan"
    /\ b.cls # "nan"
    /\ \/ Rank(a) < Rank(b)
       \/ /\ a.cls = "num"
          /\ b.cls = "num"
          /\ (a.ip < b.ip \/ (a.ip = b.ip /\ a.fp < b.fp))

----------------------------------------------------------------------------
(* ask_confirmation *)

Whitespace == {" "}
LineChars == {"d", "D", "a", "q", "x", " "}

\* char::to_lowercase().next()
ToLower(c) == IF c = "D" THEN "d" ELSE c

\* str::trim().len() == 0
IsBlank(line) == \A i \in DOMAIN line : line[i] \in Whitespace

\* options.iter().position(..): the first index (from 1) whose option equals c
\* ignoring case, 0 for None
Position(opts, c) ==
    IF \E i \in DOMAIN opts : ToLower(opts[i]) = ToLower(c)
    THEN CHOOSE i \in DOMAIN opts :
            /\ ToLower(opts[i]) = ToLower(c)
            /\ \A j \in 1..(i - 1) : ToLower(opts[j]) # ToLower(c)
    ELSE 0

\* One turn of the loop of ask_confirmation on the line read: the index
\* returned (from 1), or 0 when the question is repeated.
ask_confirmation_turn_last_char(line, opts, def) ==
    IF IsBlank(line) THEN def
    ELSE Position(opts, line[Len(line)])

ask_confirmation_turn(line, opts, def) ==
    IF IsBlank(line) THEN def
    ELSE Position(opts, line[1])

----------------------------------------------------------------------------
(* Inputs *)

\* captured outputs of nvidia-smi, and the ways the child process can end
\* every output up to MaxOut tokens, and the outputs that hold the pattern's
\* literal text twice, each time followed by digits and dots
TwoCandidateOutputs ==
    {<<DV>> \o v \o n \o <<DV>> \o w :
        v \in SeqsUpTo(Digits \cup {Dot}, MaxNum),
        w \in SeqsUpTo(Digits \cup {Dot}, MaxNum),
        n \in {<< >>, <<"x">>}}
SmiOutputs == SeqsUpTo(OutTokens, MaxOut) \cup TwoCandidateOutputs
Procs ==
    {NoProc} \cup [started : {TRUE}, code : {0, 1}, stdout : SmiOutputs]

\* texts a payload can hold as a version
VerTexts == SeqsUpTo(VerTokens, MaxVer) \cup {NaNText, InfText, <<Sign>> \o InfText}
URLs == {<<"https://example.com/test.exe">>, <<"https://example.com/other.exe">>}

\* the document of the test stub get_test_page, with the two leaves given
TestPage(version, url) ==
    JObj(<<Member("Success", JStr(<<"1">>)),
           Member("IDS", JArr(<<JObj(<<Member("downloadInfo",
               JObj(<<Member("Version", version), Member("DownloadURL", url)>>))>>)>>))>>)

\* Payloads of the extractor: every document built from these leaves along
\* the path IDS / 0 / downloadInfo / {Version, DownloadURL}, with members
\* missing, of the wrong type, or added.
Absent == [t |-> "absent", s |-> Nil, e |-> << >>]
Leaves == {JStr(<<"1", Dot, "0">>), JStr(<<"https://example.com/test.exe">>), JNum, JNull}
Opt(key, value) == IF value = Absent THEN << >> ELSE <<Member(key, value)>>
InfoObjects ==
    {JObj(Opt("Version", v) \o Opt("DownloadURL", u) \o Opt("Extra", x)) :
        v \in Leaves \cup {Absent}, u \in Leaves \cup {Absent}, x \in {Absent, JNum}}
Elements ==
    {JObj(<<Member("downloadInfo", i)>>) : i \in InfoObjects \cup {JNum}}
        \cup {JObj(<< >>), JNull}
Arrays == {JArr(es) : es \in SeqsUpTo(Elements, MaxIDS)}
Documents ==
    {JObj(<<Member("Success", JStr(<<"1">>)), Member("IDS", x)>>) : x \in Arrays \cup Elements}
        \cup {JObj(<< >>), JArr(<< >>), JNull}
Pages == {Garbage} \cup {Text(d) : d \in Documents}

\* what one read_line of stdin gives: a line (without its terminator), or
\* an error for bytes that are not UTF-8
Lines == SeqsUpTo(LineChars, MaxLine)
StdinReads == [ok : {TRUE}, text : Lines] \cup {[ok |-> FALSE, text |-> Nil]}

----------------------------------------------------------------------------
(* get_page *)

\* resp is the outcome of the transfer: reached, the body being UTF-8, the text
get_page(resp) ==
    IF ~resp.reached THEN Err(ErrNetwork)
    ELSE IF ~resp.utf8 THEN Err(ErrEncoding)
    ELSE Ok(<<resp.text>>)

Unreachable == [reached |-> FALSE, utf8 |-> TRUE, text |-> Garbage]
NotUtf8 == [reached |-> TRUE, utf8 |-> FALSE, text |-> Garbage]
Response(text) == [reached |-> TRUE, utf8 |-> TRUE, text |-> text]

----------------------------------------------------------------------------
(* The local probe on its own: locate the executable, then run it *)

InitProbe ==
    /\ pc = "locate"
    /\ env \in SUBSET {"windir", "ProgramFiles"}
    /\ files \in SUBSET Candidates
    /\ proc = NoProc
    /\ page = NoResult
    /\ installed = NoResult
    /\ available = NoResult
    /\ instd_ver = NoResult
    /\ avail_ver = NoResult
    /\ options = << >>
    /\ default = 0
    /\ input = Nil
    /\ choice = 0
    /\ log = << >>
    /\ location = NoResult
    /\ disk = "absent"
    /\ exitCode = NoExit

\* lib.rs 71: get_nvidia_smi_location(&executable_name)?
ProbeLocate ==
    /\ pc = "locate"
    /\ location' = get_nvidia_smi_location(SMI, env, files)
    /\ installed' = IF IsOk(location') THEN installed ELSE location'
    /\ pc' = IF IsOk(location') THEN "run" ELSE "probed"
    /\ UNCHANGED <<env, files, proc, page, available, instd_ver, avail_ver,
                   options, default, input, choice, log, disk, exitCode>>

\* lib.rs 72-76: run the executable, capture its output, apply the pattern
ProbeRun ==
    /\ pc = "run"
    /\ \E p \in Procs :
          /\ proc' = p
          /\ installed' = get_installed_version(SMI, env, files, p)
    /\ pc' = "probed"
    /\ UNCHANGED <<env, files, page, available, instd_ver, avail_ver,
                   options, default, input, choice, log, location, disk, exitCode>>

NextProbe == ProbeLocate \/ ProbeRun

SpecProbe == InitProbe /\ [][NextProbe]_vars

\* s[i..] starts an occurrence "Driver Version: <digits>.<digits>" whose dot
\* is at j and whose last digit is at k
Occurrence(s, i, j, k) ==
    /\ s[i] = DV
    /\ j >= i + 2
    /\ k >= j + 1
    /\ k <= Len(s)
    /\ \A n \in (i + 1)..(j - 1) : s[n] \in Digits
    /\ s[j] = Dot
    /\ \A n \in (j + 1)..k : s[n] \in Digits
    /\ (k = Len(s) \/ s[k + 1] \notin Digits)

Occurs(s, i) == \E j, k \in DOMAIN s : Occurrence(s, i, j, k)

\* C7 (as claimed): the two candidate paths are checked in a fixed priority
\* order and the first that exists is returned; NotFound is an error value
\* when neither exists; an absent base-directory variable (windir, or
\* ProgramFiles when the second path has to be looked at) is reported as an
\* error value too, not as a crash.
C7_LocateReturnsErrorValues ==
    pc # "locate" =>
        /\ ("windir" \notin env) => IsErr(location)
        /\ ("windir" \in env /\ NewPath(SMI) \in files) => location = Ok(NewPath(SMI))
        /\ ("windir" \in env /\ NewPath(SMI) \notin files /\ "ProgramFiles" \notin env)
              => IsErr(location)
        /\ ({"windir", "ProgramFiles"} \subseteq env /\ files = {OldPath(SMI)})
              => location = Ok(OldPath(SMI))
        /\ ({"windir", "ProgramFiles"} \subseteq env /\ files = {})
              => location = Err(ErrNotFound)

\* C8: once the executable is located, the probe fails with ExecutionError
\* exactly when the process cannot be started, whatever the exit code; with
\* the output captured it returns the digits.digits text of the first
\* occurrence of "Driver Version: <digits>.<digits>", and fails with
\* PatternNotFound exactly when the output holds no occurrence.
C8_ProbeExtractsFirstOccurrence ==
    (pc = "probed" /\ IsOk(location)) =>
        LET out == proc.stdout
            starts == {i \in DOMAIN out : Occurs(out, i)}
        IN  /\ ~IsPanic(installed)
            /\ (~proc.started) <=> (IsErr(installed) /\ installed.msg = ErrExecution)
            /\ (proc.started /\ starts = {}) <=>
                   (IsErr(installed) /\ installed.msg = ErrPatternNotFound)
            /\ (proc.started /\ starts # {}) <=> IsOk(installed)
            /\ IsOk(installed) =>
                   \E i \in starts : \E j, k \in DOMAIN out :
                       /\ \A n \in starts : i <= n
                       /\ Occurrence(out, i, j, k)
                       /\ installed.val = SubSeq(out, i + 1, k)

\* a failed exit, noise on both sides, and an earlier "Driver Version: "
\* that is followed by no number
C8_Witness ==
    /\ pc = "probed"
    /\ proc.started
    /\ proc.code = 1
    /\ proc.stdout = <<DV, "x", DV, "1", Dot, "0">>
    /\ installed = Ok(<<"1", Dot, "0">>)

----------------------------------------------------------------------------
(* The remote side on its own: fetch, then extract *)

InitExtract ==
    /\ pc = "fetch"
    /\ env = {}
    /\ files = {}
    /\ proc = NoProc
    /\ page = NoResult
    /\ installed = NoResult
    /\ available = NoResult
    /\ instd_ver = NoResult
    /\ avail_ver = NoResult
    /\ options = << >>
    /\ default = 0
    /\ input = Nil
    /\ choice = 0
    /\ log = << >>
    /\ location = NoResult
    /\ disk = "absent"
    /\ exitCode = NoExit

\* lib.rs 55: get_page(NVIDIA_URL), the injected fetch capability
ExtractFetch ==
    /\ pc = "fetch"
    /\ \E resp \in {Unreachable, NotUtf8} \cup {Response(t) : t \in Pages} :
          page' = get_page(resp)
    /\ pc' = "extract"
    /\ UNCHANGED <<env, files, proc, installed, available, instd_ver, avail_ver,
                   options, default, input, choice, log, location, disk, exitCode>>

\* lib.rs 55-61: the ? on the fetch, json::parse, the two lookups
ExtractRun ==
    /\ pc = "extract"
    /\ available' = get_available_version_information(page)
    /\ pc' = "extracted"
    /\ UNCHANGED <<env, files, proc, page, installed, instd_ver, avail_ver,
                   options, default, input, choice, log, location, disk, exitCode>>

NextExtract == ExtractFetch \/ ExtractRun

SpecExtract == InitExtract /\ [][NextExtract]_vars

\* doc is an object whose IDS is a list whose element 0 is an object whose
\* downloadInfo is an object whose member key is the string x
LeafIs(doc, key, x) ==
    /\ doc.t = "obj"
    /\ \E a \in DOMAIN doc.e :
          /\ doc.e[a].k = "IDS"
          /\ doc.e[a].v.t = "arr"
          /\ Len(doc.e[a].v.e) >= 1
          /\ LET el == doc.e[a].v.e[1].v
             IN  /\ el.t = "obj"
                 /\ \E b \in DOMAIN el.e :
                       /\ el.e[b].k = "downloadInfo"
                       /\ el.e[b].v.t = "obj"
                       /\ \E c \in DOMAIN el.e[b].v.e :
                             /\ el.e[b].v.e[c].k = key
                             /\ el.e[b].v.e[c].v.t = "str"
                             /\ el.e[b].v.e[c].v.s = x

HasLeaf(doc, key) == \E l \in Leaves : l.t = "str" /\ LeafIs(doc, key, l.s)

\* C6: fetch -> extract is all-or-nothing.  A payload whose
\* IDS[0].downloadInfo holds the strings Version = V and DownloadURL = U
\* gives exactly (V, U), whatever else it holds; text that is not JSON gives
\* MalformedJSON; JSON without the path, or with a leaf that is no string,
\* gives SchemaMismatch; a fetch error is passed through unchanged; a result
\* is never returned with only one of the two leaves found.
C6_ExtractAllOrNothing ==
    pc = "extracted" =>
        /\ ~IsPanic(available)
        /\ ~IsOk(page) => available = page
        /\ (IsOk(page) /\ ~page.val[1].wf) => available = Err(ErrMalformedJSON)
        /\ (IsOk(page) /\ page.val[1].wf) =>
              LET doc == page.val[1].doc
              IN  /\ \A v, u \in {l.s : l \in {x \in Leaves : x.t = "str"}} :
                        (LeafIs(doc, "Version", v) /\ LeafIs(doc, "DownloadURL", u))
                            => available = Ok(<<v, u>>)
                  /\ (~HasLeaf(doc, "Version") \/ ~HasLeaf(doc, "DownloadURL"))
                        => (IsErr(available) /\ available.msg \in SchemaMismatch)
        /\ IsOk(available) =>
              /\ IsOk(page)
              /\ page.val[1].wf
              /\ LeafIs(page.val[1].doc, "Version", available.val[1])
              /\ LeafIs(page.val[1].doc, "DownloadURL", available.val[2])

\* the payload of the test stub, with a member added and a second element
C6_Witness ==
    /\ pc = "extracted"
    /\ IsOk(page)
    /\ page.val[1].wf
    /\ Len(JGet(page.val[1].doc, "IDS").e) = 2
    /\ JGet(JAt(JGet(page.val[1].doc, "IDS"), 0), "downloadInfo").e
          = <<Member("Version", JStr(<<"1", Dot, "0">>)),
              Member("DownloadURL", JStr(<<"https://example.com/test.exe">>)),
              Member("Extra", JNum)>>
    /\ available = Ok(<<<<"1", Dot, "0">>, <<"https://example.com/test.exe">>>>)

----------------------------------------------------------------------------
(* ask_confirmation on its own *)

AskOptionSets == {<<"d", "a", "q">>, <<"D", "q">>}

InitAsk ==
    /\ pc = "ask"
    /\ env = {}
    /\ files = {}
    /\ proc = NoProc
    /\ page = NoResult
    /\ installed = NoResult
    /\ available = NoResult
    /\ instd_ver = NoResult
    /\ avail_ver = NoResult
    /\ options \in AskOptionSets
    /\ default \in 1..(Len(options) + 1)
    /\ input = Nil
    /\ choice = 0
    /\ log = << >>
    /\ location = NoResult
    /\ disk = "absent"
    /\ exitCode = NoExit

Ev(name, arg) == [ev |-> name, arg |-> arg]
Count(name) == Cardinality({i \in DOMAIN log : log[i].ev = name})
Happened(name) == \E i \in DOMAIN log : log[i].ev = name

\* lib.rs 131-153, one turn of the loop: print the question (options[default]
\* panics for an index out of range), read a line (unwrap panics on a read
\* error), then return the default, return the position, or clear and repeat
AskTurnOn(reads) ==
    /\ pc = "ask"
    /\ Count("prompt") < MaxAsk
    /\ IF default \notin DOMAIN options
       THEN /\ pc' = "panicked"
            /\ exitCode' = ExitPanic
            /\ log' = Append(log, Ev("panic", <<"index out of bounds">>))
            /\ UNCHANGED <<input, choice>>
       ELSE \E rd \in reads :
              IF ~rd.ok
              THEN /\ pc' = "panicked"
                   /\ exitCode' = ExitPanic
                   /\ log' = log \o <<Ev("prompt", Nil), Ev("panic", <<PanicUnwrap>>)>>
                   /\ UNCHANGED <<input, choice>>
              ELSE LET r == ask_confirmation_turn(rd.text, options, default)
                   IN  /\ input' = rd.text
                       /\ choice' = r
                       /\ pc' = IF r = 0 THEN "ask" ELSE "asked"
                       /\ log' = IF r = 0 THEN Append(log, Ev("prompt", Nil))
                                 ELSE log \o <<Ev("prompt", Nil), Ev("answer", Nil)>>
                       /\ UNCHANGED exitCode
    /\ UNCHANGED <<env, files, proc, page, installed, available, instd_ver, avail_ver,
                   options, default, location, disk>>

AskTurn == AskTurnOn(StdinReads)

NextAsk == AskTurn

SpecAsk == InitAsk /\ [][NextAsk]_vars

\* two characters are the same letter, ignoring case
SameLetter(a, b) == a = b \/ {a, b} = {"d", "D"}
Listed(opts, c) == {i \in DOMAIN opts : SameLetter(opts[i], c)}
OnlyWhitespace(line) == \A i \in DOMAIN line : line[i] = " "

\* the outcome the state shows for the line last read: the index returned,
\* 0 when the question is asked again
Outcome == IF pc = "asked" THEN choice ELSE 0
LineWasRead == pc \in {"ask", "asked"} /\ Happened("prompt")

----------------------------------------------------------------------------
(* main *)

\* main.rs 42: the options and the default (index 0) of the prompt
MainOptions == <<"d", "a", "q">>
MainDefault == 1

\* what a whole run is given: the outputs of nvidia-smi (none, no match,
\* four versions of which two are the same number), the payloads (every
\* version text), the lines typed at the prompt
RunOutputs ==
    {<< >>, <<"x", DV, Dot>>} \cup
    {<<"x", DV>> \o v \o <<"x">> :
        v \in {<<"0", Dot, "1">>, <<"1", Dot, "0">>, <<"1", Dot, "1">>, <<"1", Dot, "1", "0">>}}
RunProcs ==
    {NoProc} \cup [started : {TRUE}, code : {0, 1}, stdout : RunOutputs]
RunReads ==
    {[ok |-> FALSE, text |-> Nil]} \cup
    [ok : {TRUE},
     text : {<< >>, <<" ">>, <<"d">>, <<"D", "q">>, <<"a">>, <<"q">>, <<"x">>, <<" ", "d">>}]
RunPages ==
    {Garbage} \cup
    {Text(TestPage(v, u)) :
        v \in {JStr(t) : t \in VerTexts} \cup {JNum},
        u \in {JStr(t) : t \in URLs} \cup {JNull}}
RunResponses == {Unreachable, NotUtf8} \cup {Response(t) : t \in RunPages}

Init ==
    /\ pc = "installed"
    /\ env \in SUBSET EnvVars
    /\ files \in SUBSET Candidates
    /\ proc = NoProc
    /\ page = NoResult
    /\ installed = NoResult
    /\ available = NoResult
    /\ instd_ver = NoResult
    /\ avail_ver = NoResult
    /\ options = MainOptions
    /\ default = MainDefault
    /\ input = Nil
    /\ choice = 0
    /\ log = << >>
    /\ location = NoResult
    /\ disk = "absent"
    /\ exitCode = NoExit

\* main.rs 10-23, handle_error: the value of an Ok lets main go on to its
\* next statement; an Err is printed and, after Enter, ends the process
handle_error(r, next) == IF IsOk(r) THEN next ELSE "error"

main_after_without_comparison(stmt) ==
    IF stmt = "installed" THEN "available"
    ELSE IF stmt = "available" THEN "parse_installed"
    ELSE IF stmt = "parse_installed" THEN "parse_available"
    ELSE "ask"

\* main.rs 26-37: the statement that follows stmt
main_after(stmt) ==
    IF stmt = "installed" THEN "available"
    ELSE IF stmt = "available" THEN "parse_installed"
    ELSE IF stmt = "parse_installed" THEN "parse_available"
    ELSE "compare"

\* the statement pc of main has produced r: a panic unwinds, anything else
\* goes through handle_error
Returned(r, okEvent) ==
    /\ pc' = IF IsPanic(r) THEN "panicked" ELSE handle_error(r, main_after(pc))
    /\ exitCode' = IF IsPanic(r) THEN ExitPanic ELSE exitCode
    /\ log' = Append(log, IF IsPanic(r) THEN Ev("panic", <<r.msg>>)
                          ELSE IF IsErr(r) THEN Ev("error", <<r.msg>>)
                          ELSE Ev(okEvent, Nil))

\* main.rs 26
GetInstalled ==
    /\ pc = "installed"
    /\ \E p \in RunProcs :
          /\ installed' = get_installed_version(SMI, env, files, p)
          /\ location' = get_nvidia_smi_location(SMI, env, files)
    /\ Returned(installed', "installed")
    /\ UNCHANGED <<env, files, proc, page, available, instd_ver, avail_ver,
                   options, default, input, choice, disk>>

\* main.rs 27
GetAvailable ==
    /\ pc = "available"
    /\ \E resp \in RunResponses :
          available' = get_available_version_information(get_page(resp))
    /\ Returned(available', "available")
    /\ UNCHANGED <<env, files, proc, page, installed, instd_ver, avail_ver,
                   options, default, input, choice, location, disk>>

\* main.rs 29
ParseInstalled ==
    /\ pc = "parse_installed"
    /\ instd_ver' = ParseVersion(installed.val, ErrFormatInstalled)
    /\ Returned(instd_ver', "parsed_installed")
    /\ UNCHANGED <<env, files, proc, page, installed, available, avail_ver,
                   options, default, input, choice, location, disk>>

\* main.rs 30
ParseAvailable ==
    /\ pc = "parse_available"
    /\ avail_ver' = ParseVersion(available.val[1], ErrFormatAvailable)
    /\ Returned(avail_ver', "parsed_available")
    /\ UNCHANGED <<env, files, proc, page, installed, available, instd_ver,
                   options, default, input, choice, location, disk>>

\* main.rs 15-20, the Err arm of handle_error: wait for Enter, then exit(1);
\* the unwrap on read_line panics on a read error
Acknowledge ==
    /\ pc = "error"
    /\ \E rd \in {[ok |-> TRUE, text |-> Nil], [ok |-> FALSE, text |-> Nil]} :
          IF rd.ok
          THEN /\ pc' = "exited"
               /\ exitCode' = ExitError
               /\ log' = Append(log, Ev("acknowledged", Nil))
          ELSE /\ pc' = "panicked"
               /\ exitCode' = ExitPanic
               /\ log' = Append(log, Ev("panic", <<PanicUnwrap>>))
    /\ UNCHANGED <<env, files, proc, page, installed, available, instd_ver, avail_ver,
                   options, default, input, choice, location, disk>>

\* main.rs 33-38: print the versions, compare; main returns when the
\* installed version is not less than the available one
Compare ==
    /\ pc = "compare"
    /\ IF F64Less(instd_ver.val, avail_ver.val)
       THEN /\ pc' = "ask"
            /\ log' = Append(log, Ev("compare", <<"outdated">>))
            /\ UNCHANGED exitCode
       ELSE /\ pc' = "done"
            /\ log' = Append(log, Ev("compare", <<"not outdated">>))
            /\ exitCode' = ExitOk
    /\ UNCHANGED <<env, files, proc, page, installed, available, instd_ver, avail_ver,
                   options, default, input, choice, location, disk>>

dispatch_arms_swapped(c) ==
    IF c = 1 THEN "auto_install" ELSE IF c = 2 THEN "start_browser" ELSE "quit"

\* main.rs 39-42 and lib.rs 128-154: one turn of ask_confirmation
RunAsk == AskTurnOn(RunReads)

\* main.rs 42-46: the arm of the match for the index returned (0, 1, _)
dispatch(c) ==
    IF c = 1 THEN "start_browser" ELSE IF c = 2 THEN "auto_install" ELSE "quit"

\* main.rs 43 and lib.rs 106-108: expect on ComSpec, spawn, unwrap
StartBrowser ==
    /\ pc = "asked"
    /\ dispatch(choice) = "start_browser"
    /\ IF "ComSpec" \notin env
       THEN /\ pc' = "panicked"
            /\ exitCode' = ExitPanic
            /\ log' = log \o <<Ev("start_browser", available.val[2]),
                               Ev("panic", <<PanicComSpec>>)>>
       ELSE \E spawned \in BOOLEAN :
              IF spawned
              THEN /\ pc' = "done"
                   /\ exitCode' = ExitOk
                   /\ log' = log \o <<Ev("start_browser", available.val[2]),
                                      Ev("browser_started", available.val[2])>>
              ELSE /\ pc' = "panicked"
                   /\ exitCode' = ExitPanic
                   /\ log' = log \o <<Ev("start_browser", available.val[2]),
                                      Ev("panic", <<PanicUnwrap>>)>>
    /\ UNCHANGED <<env, files, proc, page, installed, available, instd_ver, avail_ver,
                   options, default, input, choice, location, disk>>

\* main.rs 45: any other index
Quit ==
    /\ pc = "asked"
    /\ dispatch(choice) = "quit"
    /\ pc' = "done"
    /\ exitCode' = ExitOk
    /\ UNCHANGED <<env, files, proc, page, installed, available, instd_ver, avail_ver,
                   options, default, input, choice, log, location, disk>>

after_download_ignoring_failure(r) == "run_installer"

\* lib.rs 203-214, the match on dl_file's result: Ok goes on to the
\* installer, Err prints the message and auto_install returns
after_download(r) == IF IsOk(r) THEN "run_installer" ELSE "done"

\* auto_install takes the arm for r, the Result of dl_file
Downloaded(r) ==
    /\ pc' = after_download(r)
    /\ exitCode' = IF after_download(r) = "done" THEN ExitOk ELSE exitCode

\* main.rs 44, lib.rs 198-203 and 171: expect on temp, then dl_file creates
\* the target file
AutoInstallStart ==
    /\ pc = "asked"
    /\ dispatch(choice) = "auto_install"
    /\ IF "temp" \notin env
       THEN /\ pc' = "panicked"
            /\ exitCode' = ExitPanic
            /\ log' = log \o <<Ev("auto_install", available.val[2]),
                               Ev("panic", <<PanicTemp>>)>>
            /\ UNCHANGED disk
       ELSE \E created \in BOOLEAN :
              IF created
              THEN /\ pc' = "transfer"
                   /\ disk' = "empty"
                   /\ log' = log \o <<Ev("auto_install", available.val[2]),
                                      Ev("download_started", available.val[2])>>
                   /\ UNCHANGED exitCode
              ELSE /\ Downloaded(Err(ErrCreate))
                   /\ log' = log \o <<Ev("auto_install", available.val[2]),
                                      Ev("error", <<ErrCreate>>)>>
                   /\ UNCHANGED disk
    /\ UNCHANGED <<env, files, proc, page, installed, available, instd_ver, avail_ver,
                   options, default, input, choice, location>>

\* lib.rs 172-190: the transfer writes the body to the file; it completes,
\* or it is interrupted with what was written so far left in the file, or
\* a write to the file fails and the unwrap in the write callback panics
Transfer ==
    /\ pc = "transfer"
    /\ \/ /\ disk' = "complete"
          /\ Downloaded(Ok(Nil))
          /\ log' = Append(log, Ev("download_finished", Nil))
       \/ /\ disk' \in {"empty", "partial"}
          /\ Downloaded(Err(ErrNetwork))
          /\ log' = Append(log, Ev("error", <<ErrNetwork>>))
       \/ /\ disk' \in {"empty", "partial"}
          /\ pc' = "panicked"
          /\ exitCode' = ExitPanic
          /\ log' = Append(log, Ev("panic", <<PanicUnwrap>>))
    /\ UNCHANGED <<env, files, proc, page, installed, available, instd_ver, avail_ver,
                   options, default, input, choice, location>>

\* lib.rs 205-206: Command::new(temp_str).status() starts the installer;
\* unwrap panics when it cannot be started
RunInstaller ==
    /\ pc = "run_installer"
    /\ \E started \in BOOLEAN :
          IF started
          THEN /\ pc' = "installing"
               /\ log' = Append(log, Ev("installer_started", Nil))
               /\ UNCHANGED exitCode
          ELSE /\ pc' = "panicked"
               /\ exitCode' = ExitPanic
               /\ log' = Append(log, Ev("panic", <<PanicUnwrap>>))
    /\ UNCHANGED <<env, files, proc, page, installed, available, instd_ver, avail_ver,
                   options, default, input, choice, location, disk>>

\* lib.rs 206-211: status() returns when the installer has ended (with any
\* exit code); the temp file is removed, or the failure to remove it is
\* printed; auto_install and main return
FinishInstall ==
    /\ pc = "installing"
    /\ \E code \in {0, 1}, removed \in BOOLEAN :
          /\ disk' = IF removed THEN "deleted" ELSE disk
          /\ log' = log \o <<Ev("installer_finished", <<IF code = 0 THEN "0" ELSE "1">>),
                             Ev("delete_attempted", Nil),
                             Ev(IF removed THEN "deleted" ELSE "delete_failed", Nil)>>
    /\ pc' = "done"
    /\ exitCode' = ExitOk
    /\ UNCHANGED <<env, files, proc, page, installed, available, instd_ver, avail_ver,
                   options, default, input, choice, location>>

Next ==
    \/ GetInstalled
    \/ GetAvailable
    \/ ParseInstalled
    \/ ParseAvailable
    \/ Acknowledge
    \/ Compare
    \/ RunAsk
    \/ StartBrowser
    \/ Quit
    \/ AutoInstallStart
    \/ Transfer
    \/ RunInstaller
    \/ FinishInstall

Spec == Init /\ [][Next]_vars

Terminal == {"done", "exited", "panicked"}

----------------------------------------------------------------------------
(* Properties of a whole run *)

Before(a, b) ==
    \A i \in DOMAIN log : log[i].ev = b => \E j \in 1..(i - 1) : log[j].ev = a

\* what main does with the two versions
ActionEvents ==
    {"compare", "prompt", "answer", "start_browser", "browser_started", "auto_install",
     "download_started", "download_finished", "installer_started", "installer_finished",
     "delete_attempted", "deleted", "delete_failed"}
Acted == \E i \in DOMAIN log : log[i].ev \in ActionEvents

\* the text is a number: an optional sign, then NaN, inf, or digits with at
\* most one dot among them
NumberText(s) ==
    LET body == IF s # << >> /\ s[1] = Sign THEN Tail(s) ELSE s
    IN  \/ body \in {NaNText, InfText}
        \/ /\ \A i \in DOMAIN body : body[i] \in Digits \cup {Dot}
           /\ Cardinality({i \in DOMAIN body : body[i] = Dot}) <= 1
           /\ \E i \in DOMAIN body : body[i] \in Digits

Failed(r) == IsErr(r) \/ IsPanic(r)

\* C1: when the local probe, the fetch and extraction, or the parse of
\* either version fails, the run aborts with nothing compared, asked,
\* opened or downloaded; whatever is compared or done is done with an
\* installed and an available version that were both obtained and are
\* both numbers.
C1_NoPartialSuccess ==
    /\ (Failed(installed) \/ Failed(available) \/ Failed(instd_ver) \/ Failed(avail_ver))
          => (pc \in {"error", "exited", "panicked"} /\ ~Acted)
    /\ Acted =>
          /\ IsOk(installed)
          /\ IsOk(available)
          /\ IsOk(instd_ver)
          /\ IsOk(avail_ver)
          /\ NumberText(installed.val)
          /\ NumberText(available.val[1])

\* the available version is not a number: the run has ended with status 1
\* and nothing was compared
C1_Witness ==
    /\ pc = "exited"
    /\ IsOk(installed)
    /\ IsOk(available)
    /\ IsOk(instd_ver)
    /\ IsErr(avail_ver)
    /\ ~NumberText(available.val[1])
    /\ exitCode = ExitError

\* numeric order of two parsed versions, NaN being in no order with anything
Below(a, b) ==
    /\ a.cls # "nan"
    /\ b.cls # "nan"
    /\ \/ (a.cls = "-inf" /\ b.cls # "-inf")
       \/ (b.cls = "inf" /\ a.cls # "inf")
       \/ (a.cls = "num" /\ b.cls = "num" /\ (a.ip < b.ip \/ (a.ip = b.ip /\ a.fp < b.fp)))
AtLeast(a, b) == a.cls # "nan" /\ b.cls # "nan" /\ ~Below(a, b)

\* C2: with installed >= available (equal included) the result is not
\* Outdated and the run ends with status 0, nothing asked and nothing done;
\* the prompt is shown only when installed < available.
C2_EqualIsNotOutdated ==
    /\ (IsOk(instd_ver) /\ IsOk(avail_ver) /\ AtLeast(instd_ver.val, avail_ver.val)) =>
          /\ pc \in {"compare", "done"}
          /\ pc = "done" => (exitCode = ExitOk /\ log[Len(log)] = Ev("compare", <<"not outdated">>))
          /\ ~Happened("prompt")
          /\ ~Happened("start_browser")
          /\ ~Happened("auto_install")
    /\ (pc = "ask" \/ Happened("prompt")) =>
          (IsOk(instd_ver) /\ IsOk(avail_ver) /\ Below(instd_ver.val, avail_ver.val))

\* "1.10" installed and "1.1" available: different texts, the same number
C2_Witness ==
    /\ pc = "done"
    /\ installed = Ok(<<"1", Dot, "1", "0">>)
    /\ IsOk(available)
    /\ available.val[1] = <<"1", Dot, "1">>
    /\ ~Happened("prompt")

\* C3: when installed < available the choice is presented; when the answer
\* is "download" (index 0, also the answer to an empty line) start_browser
\* is invoked exactly once, with the extracted URL, and nothing is
\* downloaded.
C3_DownloadOpensBrowserOnce ==
    /\ (IsOk(instd_ver) /\ IsOk(avail_ver) /\ Below(instd_ver.val, avail_ver.val)
            /\ pc # "compare")
          => (pc = "ask" \/ Happened("prompt"))
    /\ (pc = "asked" /\ IsBlank(input)) => choice = MainDefault
    /\ Count("start_browser") <= 1
    /\ Happened("start_browser") => choice = 1
    /\ (choice = 1 /\ pc \in Terminal) =>
          /\ Count("start_browser") = 1
          /\ \A i \in DOMAIN log :
                log[i].ev = "start_browser" => log[i].arg = available.val[2]
          /\ ~Happened("auto_install")
          /\ ~Happened("download_started")
          /\ disk = "absent"

\* Enter alone at the prompt: the default opens the browser
C3_Witness ==
    /\ pc = "done"
    /\ input = << >>
    /\ choice = 1
    /\ Happened("browser_started")
    /\ log[Len(log)].arg = <<"https://example.com/other.exe">>

\* C4 (as claimed): every error of the taxonomy, the download errors of the
\* auto-install flow included, ends the run with a non-zero exit status.
C4_EveryErrorExitsNonZero ==
    (pc \in Terminal /\ Happened("error")) => exitCode # ExitOk

\* C5: both acquisition results are there before the comparison, the
\* comparison is made before any prompt, and the answer is read before the
\* browser or the downloader is called.
C5_Ordering ==
    /\ Before("installed", "compare")
    /\ Before("available", "compare")
    /\ Before("parsed_installed", "compare")
    /\ Before("parsed_available", "compare")
    /\ Before("compare", "prompt")
    /\ Before("prompt", "answer")
    /\ Before("answer", "start_browser")
    /\ Before("answer", "auto_install")
    /\ pc = "asked" => Happened("answer")

\* asked twice, then the download and the installer ran
C5_Witness ==
    /\ pc = "done"
    /\ Count("prompt") = 2
    /\ Happened("installer_finished")

DownloadFailed ==
    \E i \in DOMAIN log :
        /\ log[i].ev = "error"
        /\ \E j \in 1..(i - 1) : log[j].ev = "auto_install"

\* C9: the installer is started only after the download succeeded; the
\* temp file is deleted only after the installer has ended; a deletion that
\* fails is reported and the run still ends with status 0; after a failed
\* download (the file not created, or the transfer interrupted) no
\* installer is started, nothing is deleted and what was written stays.
C9_AutoInstallOrder ==
    /\ Before("download_finished", "installer_started")
    /\ Before("installer_started", "installer_finished")
    /\ Before("installer_finished", "delete_attempted")
    /\ Before("delete_attempted", "deleted")
    /\ Before("delete_attempted", "delete_failed")
    /\ Happened("installer_started") => disk \in {"complete", "deleted"}
    /\ Happened("delete_failed") => (pc = "done" /\ exitCode = ExitOk /\ disk = "complete")
    /\ pc \in {"run_installer", "installing"} => Happened("download_finished")
    /\ DownloadFailed =>
          /\ ~Happened("download_finished")
          /\ ~Happened("installer_started")
          /\ ~Happened("delete_attempted")
          /\ disk \in {"absent", "empty", "partial"}
          /\ Happened("download_started") <=> disk # "absent"
          /\ pc = "done"

\* the transfer was interrupted: part of the file is on disk, the run is over
C9_Witness ==
    /\ pc = "done"
    /\ DownloadFailed
    /\ disk = "partial"
    /\ log[Len(log)] = Ev("error", <<ErrNetwork>>)
====
